---- MODULE Spec2Model ----
(***************************************************************************)
(* Model of the mx-rag service: the /ingest, /chat and /chat/raw request   *)
(* handlers, the ingestion pipeline (ingest_directory / ingest_pdf /       *)
(* process_pdf / save_chunk), the RAG and raw chat pipelines (process_chat *)
(* / process_raw_chat), the summary handler (generate_summary) and the     *)
(* history conversion it uses, together with the persistent vector-store   *)
(* collection and the chunk directory they share.                          *)
(*                                                                         *)
(* The handlers are `async def` functions whose bodies call synchronous    *)
(* code without awaiting, so a request runs to its response before the     *)
(* event loop serves the next one: one request is in flight at a time.     *)
(* Inside a request the external calls (PDF read, embedding, vector-store  *)
(* write, disk write, retrieval, model call) are separate steps.           *)
(*                                                                         *)
(* Three specifications: Spec is the application of src/app/main.py;       *)
(* SummarySpec drives the handler of src/app/routers/summary.py, which the *)
(* application does not mount; ConvertSpec applies the history conversion  *)
(* of src/app/utils/history_utils.py to arbitrary arguments.               *)
(***************************************************************************)
EXTENDS Integers, Sequences, FiniteSets, TLC

(***************************************************************************)
(* Bounds of the model.                                                    *)
(***************************************************************************)
MaxChunks == 2
MaxHistory == 2
MaxItems == 2

Texts == {"x", "y"}
Queries == {"", "x", "q"}

(***************************************************************************)
(* Generic helpers.                                                        *)
(***************************************************************************)
RECURSIVE SeqsUpTo(_, _)
SeqsUpTo(S, n) ==
    IF n = 0 THEN {<<>>}
    ELSE LET shorter == SeqsUpTo(S, n - 1)
         IN  shorter \cup {Append(s, x) : s \in {t \in shorter : Len(t) = n - 1}, x \in S}

Range(s) == {s[i] : i \in DOMAIN s}

(***************************************************************************)
(* Python truthiness: `not x` is true of the empty string / empty list.    *)
(***************************************************************************)
NotStr(x) == x = ""
NotList(x) == Len(x) = 0

(***************************************************************************)
(* Messages are sequences of phrases; `phrase in str(e)` is membership.    *)
(***************************************************************************)
VectorStoreErrorPhrase == "Vector store error"
OpenAIErrorPhrase == "OpenAI API error"
ProcessingErrorPhrase == "Error processing chat request"
ConfigurationErrorPhrase == "Configuration error"
ApiKeyMissingPhrase == "OpenAI API key not found in settings"

Contains(msg, phrase) == \E i \in DOMAIN msg : msg[i] = phrase

FailureMessages ==
    {<<VectorStoreErrorPhrase>>, <<OpenAIErrorPhrase>>, <<"connection refused">>}

\* What a failing external call raises: any message, as a ValueError or not.
Failures ==
    [type : {"Exception"}, msg : FailureMessages]
    \cup {[type |-> "ValueError", msg |-> <<"connection refused">>]}

(***************************************************************************)
(* Settings (src/app/core/config.py).  Only the declared fields exist.     *)
(***************************************************************************)
\* The values a deployment hands to Settings, the three per-token rates among
\* them (in millionths of a dollar per token).
ConfiguredValues(key, save) ==
    [openai_api_key |-> key,
     chunk_size |-> 512,
     chunk_overlap |-> 50,
     save_chunks |-> save,
     chat_top_k |-> 3,
     chat_return_source_docs |-> TRUE,
     model_input_cost_per_token |-> 150,
     model_output_cost_per_token |-> 600,
     model_cached_input_cost_per_token |-> 75]

\* The fields the Settings class declares (of those the model reads).
DeclaredFields ==
    {"openai_api_key", "chunk_size", "chunk_overlap", "save_chunks",
     "chat_top_k", "chat_return_source_docs"}

\* Settings(...) with extra="ignore": a value given for an undeclared field is
\* dropped.
SettingsFor(key, save) ==
    LET given == ConfiguredValues(key, save)
    IN  [f \in DOMAIN given \cap DeclaredFields |-> given[f]]

HasAttr(obj, name) == name \in DOMAIN obj


(***************************************************************************)
(* State.                                                                  *)
(***************************************************************************)
VARIABLES
    settings,      \* the cached Settings instance (get_settings)
    dirExists,     \* whether settings.pdf_directory exists
    pdfs,          \* the *.pdf files of the directory, in glob order
    content,       \* file name -> unreadable, or the pieces its text splits into
    store,         \* the vector-store collection: sequence of entries
    chunkFiles,    \* the chunk directory: set of [name, data] files
    req,           \* request in flight: "none", "ingest", "chat", "raw", "summary"
    pc,            \* position of the request in flight
    ingFiles,      \* ingest: paths returned by the glob
    ingIdx,        \* ingest: index of the file being processed
    chunks,        \* ingest: chunks of the file being processed
    results,       \* ingest: per-file result records collected so far
    storeWrites,   \* ingest: upsert calls made while serving the request
    fileWrites,    \* ingest: chunk files written while serving the request
    chatQuery,     \* chat: request.query
    chatHistory,   \* chat: request.history
    vsCalls,       \* chat: vector-store queries made while serving the request
    llmCalls,      \* chat: model invocations made while serving the request
    retrieved,     \* chat: documents returned by the retriever
    answer,        \* chat: text returned by the model
    failedAt,      \* chat: step whose exception ended the request, or "none"
    llmInput,      \* chat: the messages handed to the model
    cost,          \* chat: the call of calculate_cost_info and its outcome
    convIn,        \* conversion: the argument of convert_history_to_messages
    convOut,       \* conversion: its outcome, or Pending before the call
    waiting,       \* event loop: a chat request that arrived while an ingestion
                   \*   was being served, with the collection as it was then
    built,         \* clients constructed by constructor calls while serving
                   \*   the request
    resp,          \* the response of the last finished request
    lastStored,    \* history: document of the last vector-store write, and
                   \*   how many times in a row it was written (up to 2)
    ingested       \* history: paths for which ingest_pdf returned success

vars == <<settings, dirExists, pdfs, content, store, chunkFiles, req, pc,
          ingFiles, ingIdx, chunks, results, storeWrites, fileWrites,
          chatQuery, chatHistory, vsCalls, llmCalls, retrieved, answer,
          failedAt, llmInput, cost, convIn, convOut, waiting, built, resp,
          lastStored, ingested>>

ingestVars == <<ingFiles, ingIdx, chunks, results, storeWrites, fileWrites>>
chatVars == <<chatQuery, chatHistory, vsCalls, llmCalls, retrieved, answer,
              failedAt, llmInput, cost>>
envVars == <<settings, dirExists, pdfs, content>>
convVars == <<convIn, convOut>>

NoResp == [endpoint |-> "none", code |-> 0, body |-> [none |-> TRUE]]

PdfDirectory == "src/pdfs"
PdfPath(name) == <<PdfDirectory, name>>
FileName(path) == path[Len(path)]

\* The texts of the files: up to MaxChunks pieces, neighbouring pieces differing.
PieceSeqs == {p \in SeqsUpTo(Texts, MaxChunks) :
                \A i \in 1..(Len(p) - 1) : p[i] # p[i + 1]}

Contents ==
    {[kind |-> "corrupt", pieces |-> <<>>]}
    \cup {[kind |-> "text", pieces |-> p] : p \in PieceSeqs}

\* The directory listings: the glob returns the files in one order; the other
\* order is the same listing with the two names exchanged.
Listings == {<<>>, <<"a.pdf">>, <<"a.pdf", "b.pdf">>}

\* The histories of a request: the first n turns of one conversation.
Conversation == <<<<"u", "a">>, <<"v", "b">>, <<"w", "c">>>>

Histories == {SubSeq(Conversation, 1, n) : n \in 0..MaxHistory}

Raise(type, msg) == [ok |-> FALSE, exc |-> [type |-> type, msg |-> msg]]
Return(value) == [ok |-> TRUE, value |-> value]

\* No call of calculate_cost_info was made.
NoCost == [called |-> FALSE]

\* Python values: strings, None, tuples and lists of values.
PyStr(s) == [type |-> "str", val |-> s, elems |-> <<>>]
PyNone == [type |-> "NoneType", val |-> "None", elems |-> <<>>]
PyTuple(elems) == [type |-> "tuple", val |-> "", elems |-> elems]
PyList(elems) == [type |-> "list", val |-> "", elems |-> elems]

\* No request is waiting for the event loop.
NoWaiting == [arrived |-> FALSE, query |-> "", store |-> <<>>]

\* Constructor calls made so far while serving a request: ChatOpenAI(...) in
\* get_chat_llm and the Chroma instance Chroma.from_documents creates.  (The
\* instances of get_embeddings and get_vectordb are memoised by lru_cache and
\* are not counted.)
NoClients == [llm |-> 0, vectordb |-> 0]
ConstructChatOpenAI(b) == [b EXCEPT !.llm = @ + 1]
ConstructChroma(b) == [b EXCEPT !.vectordb = @ + 1]

\* The conversion has not been called yet.
Pending == [ok |-> FALSE, exc |-> [type |-> "pending", msg |-> <<>>]]

\* No request is in flight and none was served: empty collection, empty chunk
\* directory, no locals.
RequestsIdle ==
    /\ store = <<>>
    /\ chunkFiles = {}
    /\ req = "none"
    /\ pc = "idle"
    /\ ingFiles = <<>>
    /\ ingIdx = 0
    /\ chunks = <<>>
    /\ results = <<>>
    /\ storeWrites = 0
    /\ fileWrites = 0
    /\ chatQuery = ""
    /\ chatHistory = <<>>
    /\ vsCalls = 0
    /\ llmCalls = 0
    /\ retrieved = <<>>
    /\ answer = ""
    /\ failedAt = "none"
    /\ llmInput = <<>>
    /\ cost = NoCost
    /\ waiting = NoWaiting
    /\ built = NoClients
    /\ resp = NoResp
    /\ lastStored = [path |-> <<>>, times |-> 0]
    /\ ingested = {}

Init ==
    /\ \E key \in {"", "sk-test"}, save \in BOOLEAN : settings = SettingsFor(key, save)
    /\ dirExists \in BOOLEAN
    /\ pdfs \in Listings
    /\ content \in [Range(pdfs) -> Contents]
    /\ dirExists = FALSE => pdfs = <<>>
    /\ RequestsIdle
    /\ convIn = PyList(<<>>)
    /\ convOut = Pending

(***************************************************************************)
(* Ingestion pipeline (src/ingestion/ingest.py).                           *)
(***************************************************************************)

\* extract_text_from_pdf: a file that cannot be parsed raises ValueError.
ExtractFails(path) == content[FileName(path)].kind = "corrupt"

\* The pieces RecursiveCharacterTextSplitter.create_documents yields.
SplitText(path) == content[FileName(path)].pieces

\* process_pdf: one Document per piece, with file and positional metadata.
ProcessPdf(path) ==
    LET pieces == SplitText(path)
        n == Len(pieces)
    IN  [i \in 1..n |->
            [page_content |-> pieces[i],
             metadata |-> [source |-> FileName(path),
                           file_path |-> path,
                           file_type |-> "pdf",
                           chunk_id |-> ToString(i - 1),
                           chunk_index |-> i - 1,
                           total_chunks |-> n]]]

\* Variant: the ids are listed from the last chunk to the first.
ChunkIds_Reversed(cs) == [i \in DOMAIN cs |-> cs[Len(cs) + 1 - i].metadata.chunk_id]

\* ingest_pdf: ids = [chunk.metadata["chunk_id"] for chunk in chunks]
ChunkIds(cs) == [i \in DOMAIN cs |-> cs[i].metadata.chunk_id]

\* Variant: the write adds the entry whether or not its id is present.
UpsertOne_Add(st, e) == Append(st, e)

\* One entry written by the collection's upsert: replace the entry with the
\* same id where it is, else add a new entry.
UpsertOne(st, e) ==
    IF \E i \in DOMAIN st : st[i].id = e.id
    THEN [i \in DOMAIN st |-> IF st[i].id = e.id THEN e ELSE st[i]]
    ELSE Append(st, e)

RECURSIVE UpsertAll(_, _, _, _)
UpsertAll(st, cs, ids, i) ==
    IF i > Len(cs) THEN st
    ELSE UpsertAll(UpsertOne(st, [id |-> ids[i],
                                  text |-> cs[i].page_content,
                                  metadata |-> cs[i].metadata]),
                   cs, ids, i + 1)

\* Variant: the collection is created anew for each document.
FromDocuments_Recreate(st, cs, ids) == UpsertAll(<<>>, cs, ids, 1)

\* Chroma.from_documents(documents=chunks, ids=ids, ...)
FromDocuments(st, cs, ids) == UpsertAll(st, cs, ids, 1)

\* save_chunk: the file chunk_<i>.json holding text and metadata.
ChunkFile(chunk, chunk_id) ==
    [name |-> <<"chunk_", ToString(chunk_id), ".json">>,
     data |-> [text |-> chunk.page_content,
               metadata |-> [k \in {"chunk_id"} \cup DOMAIN chunk.metadata |->
                               IF k \in DOMAIN chunk.metadata
                               THEN chunk.metadata[k]
                               ELSE ToString(chunk_id)]]]

\* Variant: a file that exists is left as it is.
WriteFile_KeepExisting(files, f) ==
    IF \E g \in files : g.name = f.name THEN files ELSE files \cup {f}

\* save_chunk: open(chunk_file, "w") replaces a file of the same name.
WriteFile(files, f) == {g \in files : g.name # f.name} \cup {f}

RECURSIVE SaveChunks(_, _, _)
SaveChunks(files, cs, k) ==
    IF k = 0 THEN files
    ELSE WriteFile(SaveChunks(files, cs, k - 1), ChunkFile(cs[k], k - 1))

ErrorResult(path, msg) == [status |-> "error", pdf_path |-> path, error |-> msg]

SuccessResult(path, cs) ==
    [status |-> "success", pdf_path |-> path,
     chunks_processed |-> Len(cs), chunks_saved |-> settings.save_chunks]

\* Variant: an error record ends the loop.
RecordResult_StopOnError(r) ==
    /\ results' = Append(results, r)
    /\ ingested' = IF r.status = "success" THEN ingested \cup {r.pdf_path} ELSE ingested
    /\ ingIdx' = ingIdx + 1
    /\ chunks' = <<>>
    /\ pc' = IF ingIdx + 1 > Len(ingFiles) \/ r.status = "error"
             THEN "respond" ELSE "extract"

\* ingest_directory's loop: append the record and go to the next file.
RecordResult(r) ==
    /\ results' = Append(results, r)
    /\ ingested' = IF r.status = "success" THEN ingested \cup {r.pdf_path} ELSE ingested
    /\ ingIdx' = ingIdx + 1
    /\ chunks' = <<>>
    /\ pc' = IF ingIdx + 1 > Len(ingFiles) THEN "respond" ELSE "extract"

CurrentPath == ingFiles[ingIdx]

\* Variant: the existence check is skipped.
DirectoryMissing_Ignored == FALSE

\* ingest_directory: `if not pdf_dir.exists()`
DirectoryMissing == ~dirExists

\* The locals of a finished chat request go out of scope.
ChatLocalsCleared ==
    /\ chatQuery' = ""
    /\ chatHistory' = <<>>
    /\ vsCalls' = 0
    /\ llmCalls' = 0
    /\ retrieved' = <<>>
    /\ answer' = ""
    /\ failedAt' = "none"
    /\ llmInput' = <<>>
    /\ cost' = NoCost

\* POST /ingest is received; ingest_directory checks the directory and globs.
IngestStart ==
    /\ req = "none"
    /\ storeWrites' = 0
    /\ fileWrites' = 0
    /\ results' = <<>>
    /\ chunks' = <<>>
    /\ built' = NoClients
    /\ IF DirectoryMissing
       THEN /\ resp' = [endpoint |-> "ingest", code |-> 500,
                        body |-> [status |-> "error",
                                  detail |-> <<"Error during ingestion", ": ",
                                               "PDF directory not found">>]]
            /\ ingFiles' = <<>>
            /\ ingIdx' = 0
            /\ UNCHANGED <<req, pc>>
       ELSE /\ req' = "ingest"
            /\ ingFiles' = [i \in DOMAIN pdfs |-> PdfPath(pdfs[i])]
            /\ ingIdx' = 1
            /\ pc' = IF pdfs = <<>> THEN "respond" ELSE "extract"
            /\ resp' = NoResp
    /\ ChatLocalsCleared
    /\ UNCHANGED <<envVars, convVars, waiting, store, chunkFiles, lastStored, ingested>>

\* process_pdf, first half: extract_text_from_pdf.
IngestExtract ==
    /\ req = "ingest" /\ pc = "extract"
    /\ IF ExtractFails(CurrentPath)
       THEN RecordResult(ErrorResult(CurrentPath, <<"Error processing PDF">>))
       ELSE /\ pc' = "chunk"
            /\ UNCHANGED <<results, ingIdx, chunks, ingested>>
    /\ UNCHANGED <<envVars, convVars, waiting, built, store, chunkFiles, req, ingFiles, storeWrites,
                   fileWrites, chatVars, resp, lastStored>>

\* process_pdf, second half: split and attach the chunk metadata.
IngestChunk ==
    /\ req = "ingest" /\ pc = "chunk"
    /\ chunks' = ProcessPdf(CurrentPath)
    /\ pc' = "embed"
    /\ UNCHANGED <<envVars, convVars, waiting, built, store, chunkFiles, req, ingFiles, ingIdx, results,
                   storeWrites, fileWrites, chatVars, resp, lastStored, ingested>>

\* get_embeddings(), then Chroma.from_documents: it creates its Chroma
\* instance and embeds all chunk texts.
IngestEmbed ==
    /\ req = "ingest" /\ pc = "embed"
    /\ IF NotStr(settings.openai_api_key)
       THEN /\ RecordResult(ErrorResult(CurrentPath, <<ApiKeyMissingPhrase>>))
            /\ UNCHANGED built
       ELSE /\ built' = ConstructChroma(built)
            /\ \E ok \in BOOLEAN :
                  IF ok
                  THEN /\ pc' = "store"
                       /\ UNCHANGED <<results, ingIdx, chunks, ingested>>
                  ELSE RecordResult(ErrorResult(CurrentPath, <<OpenAIErrorPhrase>>))
    /\ UNCHANGED <<envVars, convVars, waiting, store, chunkFiles, req, ingFiles, storeWrites,
                   fileWrites, chatVars, resp, lastStored>>

\* The collection write of Chroma.from_documents.
IngestStore ==
    /\ req = "ingest" /\ pc = "store"
    /\ \E ok \in BOOLEAN :
          IF ok
          THEN /\ store' = FromDocuments(store, chunks, ChunkIds(chunks))
               /\ storeWrites' = storeWrites + 1
               /\ lastStored' = [path |-> CurrentPath,
                                  times |-> IF lastStored.path = CurrentPath
                                            THEN 2 ELSE 1]
               /\ pc' = "persist"
               /\ UNCHANGED <<results, ingIdx, chunks, ingested>>
          ELSE /\ RecordResult(ErrorResult(CurrentPath, <<VectorStoreErrorPhrase>>))
               /\ UNCHANGED <<store, storeWrites, lastStored>>
    /\ UNCHANGED <<envVars, convVars, waiting, built, chunkFiles, req, ingFiles, fileWrites, chatVars, resp>>

\* vectordb.persist()
IngestPersist ==
    /\ req = "ingest" /\ pc = "persist"
    /\ \E ok \in BOOLEAN :
          IF ok
          THEN /\ pc' = "save"
               /\ UNCHANGED <<results, ingIdx, chunks, ingested>>
          ELSE RecordResult(ErrorResult(CurrentPath, <<"persist failed">>))
    /\ UNCHANGED <<envVars, convVars, waiting, built, store, chunkFiles, req, ingFiles, storeWrites,
                   fileWrites, chatVars, resp, lastStored>>

\* Variant: the chunk files are written whatever the setting.
SaveChunksEnabled_Always == TRUE

\* ingest_pdf: `if settings.save_chunks:`
SaveChunksEnabled == settings.save_chunks

\* The save_chunks branch and the success record of ingest_pdf.  A failing
\* write leaves the files written before it.
IngestSave ==
    /\ req = "ingest" /\ pc = "save"
    /\ IF SaveChunksEnabled
       THEN \E ok \in BOOLEAN, k \in 0..Len(chunks) :
               /\ ok => k = Len(chunks)
               /\ ~ok => (k < Len(chunks) \/ k = 0)
               /\ chunkFiles' = SaveChunks(chunkFiles, chunks, k)
               /\ fileWrites' = fileWrites + k
               /\ IF ok
                  THEN RecordResult(SuccessResult(CurrentPath, chunks))
                  ELSE RecordResult(ErrorResult(CurrentPath, <<"write failed">>))
       ELSE /\ RecordResult(SuccessResult(CurrentPath, chunks))
            /\ UNCHANGED <<chunkFiles, fileWrites>>
    /\ UNCHANGED <<envVars, convVars, waiting, built, store, req, ingFiles, storeWrites, chatVars, resp,
                   lastStored>>

CountStatus(rs, st) == Cardinality({i \in DOMAIN rs : rs[i].status = st})

IngestBody200(rs) ==
    [endpoint |-> "ingest", code |-> 200,
     body |-> [status |-> "success",
               message |-> <<"All files processed successfully">>,
               results |-> rs]]

IngestBody404 ==
    [endpoint |-> "ingest", code |-> 404,
     body |-> [status |-> "error",
               detail |-> <<"No PDF files found in the data directory">>]]

IngestBody500(rs) ==
    [endpoint |-> "ingest", code |-> 500,
     body |-> [status |-> "error",
               detail |-> <<"Failed to process all PDF files">>,
               results |-> rs]]

IngestBody207(rs) ==
    [endpoint |-> "ingest", code |-> 207,
     body |-> [status |-> "partial",
               message |-> <<"Some files failed to process">>,
               results |-> rs]]

\* Variant: the partial-success branch is missing.
IngestResponse_NoPartial(rs) ==
    IF NotList(rs) THEN IngestBody404
    ELSE IF CountStatus(rs, "success") = 0 /\ CountStatus(rs, "error") > 0
    THEN IngestBody500(rs)
    ELSE IngestBody200(rs)

\* Variant: the empty-list branch is missing.
IngestResponse_EmptyOk(rs) ==
    IF CountStatus(rs, "success") = 0 /\ CountStatus(rs, "error") > 0
    THEN IngestBody500(rs)
    ELSE IF CountStatus(rs, "error") > 0 THEN IngestBody207(rs)
    ELSE IngestBody200(rs)

\* Variant: no successful file is reported like no file.
IngestResponse_AllFailedAs404(rs) ==
    IF CountStatus(rs, "success") = 0 THEN IngestBody404
    ELSE IF CountStatus(rs, "error") > 0 THEN IngestBody207(rs)
    ELSE IngestBody200(rs)

\* ingest_pdfs (src/app/routers/ingest.py): the response for `results`.
IngestResponse(rs) ==
    LET success_count == CountStatus(rs, "success")
        error_count == CountStatus(rs, "error")
    IN  IF NotList(rs) THEN IngestBody404
        ELSE IF success_count = 0 /\ error_count > 0 THEN IngestBody500(rs)
        ELSE IF error_count > 0 THEN IngestBody207(rs)
        ELSE IngestBody200(rs)

\* ingest_directory returns; the router builds the response.
IngestRespond ==
    /\ req = "ingest" /\ pc = "respond"
    /\ resp' = IngestResponse(results)
    /\ req' = "none"
    /\ pc' = "idle"
    /\ UNCHANGED <<envVars, convVars, waiting, built, store, chunkFiles, ingestVars, chatVars, lastStored,
                   ingested>>


(***************************************************************************)
(* RAG chat pipeline (src/app/services/chat_service.py) and its router     *)
(* (src/app/routers/chat.py).                                              *)
(***************************************************************************)

\* The locals of a finished ingest request go out of scope.
IngestLocalsCleared ==
    /\ ingFiles' = <<>>
    /\ ingIdx' = 0
    /\ chunks' = <<>>
    /\ results' = <<>>
    /\ storeWrites' = 0
    /\ fileWrites' = 0

\* "\n".join([f"Human: {h}\nAssistant: {a}" for h, a in history])
RECURSIVE FormatHistory(_)
FormatHistory(h) ==
    IF Len(h) = 0 THEN <<>>
    ELSE LET turn == <<"Human: ", h[1][1], "\n", "Assistant: ", h[1][2]>>
         IN  IF Len(h) = 1 THEN turn
             ELSE turn \o <<"\n">> \o FormatHistory(Tail(h))

\* The text of a query as a sequence of pieces.
Words(q) == IF q = "" THEN <<>> ELSE <<q>>

\* calculate_tokens: the number of pieces the encoding yields.
CalculateTokens(text) == Len(text)

\* calculate_cost_info: reads the per-token rates from the settings object.
CalculateCostInfo(input_text, output_text, is_cached) ==
    LET input_tokens == CalculateTokens(input_text)
        output_tokens == CalculateTokens(output_text)
        rate_name == IF is_cached THEN "model_cached_input_cost_per_token"
                                  ELSE "model_input_cost_per_token"
    IN  IF ~HasAttr(settings, rate_name)
        THEN Raise("AttributeError", <<"'Settings' object has no attribute", rate_name>>)
        ELSE IF ~HasAttr(settings, "model_output_cost_per_token")
        THEN Raise("AttributeError",
                   <<"'Settings' object has no attribute", "model_output_cost_per_token">>)
        ELSE LET input_cost == input_tokens * settings[rate_name]
                 output_cost == output_tokens * settings["model_output_cost_per_token"]
             IN  Return([input_tokens |-> input_tokens,
                         output_tokens |-> output_tokens,
                         total_tokens |-> input_tokens + output_tokens,
                         input_cost |-> input_cost,
                         output_cost |-> output_cost,
                         total_cost |-> input_cost + output_cost])

\* One call of calculate_cost_info: its arguments and what it returned or raised.
CostCall(input_text, output_text, is_cached) ==
    [called |-> TRUE,
     input_text |-> input_text,
     output_text |-> output_text,
     is_cached |-> is_cached,
     outcome |-> CalculateCostInfo(input_text, output_text, is_cached)]

\* LangChain messages: a role and a text.
HumanMessage(text) == [type |-> "human", content |-> text]
AIMessage(text) == [type |-> "ai", content |-> text]
SystemMessage(text) == [type |-> "system", content |-> text]

\* Similarity of a stored text to the query text: an identical text has the
\* identical embedding and so the smallest distance.
Distance(q, t) == IF q = t THEN 0 ELSE 1

AsDocument(e) == [page_content |-> e.text, metadata |-> e.metadata]

\* The retriever built by vectordb.as_retriever(search_kwargs={"k": k}): the
\* k nearest entries by increasing distance, ties in any order.
TopK(st, q, k) ==
    LET m == IF Len(st) < k THEN Len(st) ELSE k
        picks == {f \in [1..m -> DOMAIN st] :
                    /\ \A i, j \in 1..m : i # j => f[i] # f[j]
                    /\ \A i, j \in 1..m :
                          i < j => Distance(q, st[f[i]].text) <= Distance(q, st[f[j]].text)
                    /\ \A i \in 1..m : \A e \in DOMAIN st :
                          (\A j \in 1..m : f[j] # e)
                             => Distance(q, st[f[i]].text) <= Distance(q, st[e].text)}
    IN  {[i \in 1..m |-> AsDocument(st[f[i]])] : f \in picks}

MetadataGet(md, key, default) == IF key \in DOMAIN md THEN md[key] ELSE default

\* process_chat: the SourceDocument built for each returned document.
SourceDocument(doc) ==
    [id |-> MetadataGet(doc.metadata, "chunk_id", "unknown"),
     content |-> doc.page_content,
     source |-> MetadataGet(doc.metadata, "source", "unknown"),
     metadata |-> [k \in DOMAIN doc.metadata \ {"chunk_id", "source"} |-> doc.metadata[k]]]

Sources(docs) ==
    IF settings.chat_return_source_docs
    THEN [i \in DOMAIN docs |-> SourceDocument(docs[i])]
    ELSE <<>>

\* The combine-documents step: the texts of the documents, blank-line separated.
RECURSIVE JoinDocuments(_)
JoinDocuments(docs) ==
    IF Len(docs) = 0 THEN <<>>
    ELSE IF Len(docs) = 1 THEN <<docs[1].page_content>>
    ELSE <<docs[1].page_content, "\n\n">> \o JoinDocuments(Tail(docs))

\* create_chat_prompt, filled in: one system message.
CreateChatPrompt(context, chat_history, question) ==
    <<SystemMessage(<<"You are a helpful AI assistant. Use the provided context",
                      "Context: ">> \o context
                    \o <<"\n\n", "Current conversation:\n">> \o chat_history
                    \o <<"\n", "Human: ">> \o question
                    \o <<"\n", "Assistant: ">>)>>

\* process_chat: input_text = f"{chat_history}\nHuman: {payload.query}"
ChatCostInput(query, history) ==
    FormatHistory(history) \o <<"\n", "Human: ">> \o Words(query)

\* process_chat: the call of calculate_cost_info.
ChatCost(query, history, ans) == CostCall(ChatCostInput(query, history), Words(ans), TRUE)

\* process_chat after chain.invoke returned: answer, sources, cost info.
ProcessChatResult(query, history, docs, ans) ==
    LET cost_info == ChatCost(query, history, ans).outcome
    IN  IF ~cost_info.ok THEN cost_info
        ELSE Return([answer |-> ans,
                     sources |-> Sources(docs),
                     processing_time |-> "elapsed",
                     cost_info |-> cost_info.value])

\* process_chat's except clauses: the exception raised to the router.
ProcessChatExcept(exc) ==
    IF exc.type = "ValueError"
    THEN [type |-> "ValueError", msg |-> <<ConfigurationErrorPhrase, ": ">> \o exc.msg]
    ELSE [type |-> "Exception", msg |-> <<ProcessingErrorPhrase, ": ">> \o exc.msg]

\* process_chat is a plain function; its return value is not awaitable.
ProcessChatIsCoroutine == FALSE

\* chat router, except clause: the 500 response for an exception.
ChatErrorResponse(exc) ==
    [endpoint |-> "chat", code |-> 500,
     body |-> [detail |->
        IF Contains(exc.msg, VectorStoreErrorPhrase)
        THEN <<VectorStoreErrorPhrase, ": ">> \o exc.msg
        ELSE IF Contains(exc.msg, OpenAIErrorPhrase)
        THEN <<OpenAIErrorPhrase, ": ">> \o exc.msg
        ELSE <<ProcessingErrorPhrase, ": ">> \o exc.msg]]

\* chat router, try block: `response = await process_chat(request)`.
ChatRouterResponse(outcome) ==
    IF ~outcome.ok THEN ChatErrorResponse(ProcessChatExcept(outcome.exc))
    ELSE IF ProcessChatIsCoroutine
    THEN [endpoint |-> "chat", code |-> 200, body |-> outcome.value]
    ELSE ChatErrorResponse(
            [type |-> "TypeError",
             msg |-> <<"object ChatResponse can't be used in 'await' expression">>])

\* Variant: the router does not check the query.
QueryRejected_Never(q) == FALSE

\* chat router: `if not request.query`
QueryRejected(q) == NotStr(q)

\* Variant: the response is prepared but the step is left to run again.
ChatFinish_Retry(r) ==
    /\ resp' = r
    /\ UNCHANGED <<req, pc>>

\* The router returns or raises: the request is over.
ChatFinish(r) ==
    /\ resp' = r
    /\ req' = "none"
    /\ pc' = "idle"

\* Variant: opening the collection starts it empty.
OpenCollection_Recreate(st) == <<>>

\* get_vectordb: Chroma(persist_directory=..., collection_name=...) opens the
\* persisted collection with the entries it holds.
OpenCollection(st) == st

\* chain.invoke is handed the history as one formatted string.  The chain
\* reads its chat_history input as a list of turns (messages or pairs) and
\* raises ValueError on any other element, so of the strings only the empty
\* one, which has no element, gets through.
HistoryAccepted(chat_history) == NotList(chat_history)

\* POST /chat is received: the router's validation, then process_chat up to
\* the first external call of chain.invoke (settings, vector store handle,
\* retriever, model handle, history formatting).
ChatStart(q, h) ==
    /\ req = "none"
    /\ chatQuery' = q
    /\ chatHistory' = h
    /\ vsCalls' = 0
    /\ llmCalls' = 0
    /\ retrieved' = <<>>
    /\ answer' = ""
    /\ llmInput' = <<>>
    /\ cost' = NoCost
    /\ IngestLocalsCleared
    /\ built' = IF QueryRejected(q) \/ NotStr(settings.openai_api_key)
                THEN NoClients ELSE ConstructChatOpenAI(NoClients)
    /\ IF QueryRejected(q)
       THEN /\ resp' = [endpoint |-> "chat", code |-> 422,
                        body |-> [detail |-> <<"Query cannot be empty">>]]
            /\ failedAt' = "none"
            /\ UNCHANGED <<req, pc>>
       ELSE IF NotStr(settings.openai_api_key)
       THEN /\ resp' = ChatRouterResponse(Raise("ValueError", <<ApiKeyMissingPhrase>>))
            /\ failedAt' = "config"
            /\ UNCHANGED <<req, pc>>
       ELSE IF ~HistoryAccepted(FormatHistory(h))
       THEN /\ resp' = ChatRouterResponse(
                          Raise("ValueError", <<"Unsupported chat history format">>))
            /\ failedAt' = "history"
            /\ UNCHANGED <<req, pc>>
       ELSE /\ req' = "chat"
            /\ pc' = "retrieve"
            /\ resp' = NoResp
            /\ failedAt' = "none"
    /\ store' = IF QueryRejected(q) \/ NotStr(settings.openai_api_key)
                THEN store ELSE OpenCollection(store)
    /\ UNCHANGED <<envVars, convVars, waiting, chunkFiles, lastStored, ingested>>

\* chain.invoke: the retriever queries the vector store.
ChatRetrieve ==
    /\ req = "chat" /\ pc = "retrieve"
    /\ vsCalls' = vsCalls + 1
    /\ \/ \E f \in Failures :
             /\ ChatFinish(ChatRouterResponse([ok |-> FALSE, exc |-> f]))
             /\ failedAt' = "retrieval"
             /\ UNCHANGED retrieved
       \/ \E docs \in TopK(store, chatQuery, settings.chat_top_k) :
             /\ retrieved' = docs
             /\ pc' = "generate"
             /\ UNCHANGED <<req, resp, failedAt>>
    /\ UNCHANGED <<envVars, convVars, waiting, built, store, chunkFiles, ingestVars, chatQuery,
                   chatHistory, llmCalls, answer, llmInput, cost, lastStored,
                   ingested>>

\* chain.invoke: the model answers from the retrieved context; then the rest
\* of process_chat and of the router.
ChatGenerate ==
    /\ req = "chat" /\ pc = "generate"
    /\ llmCalls' = llmCalls + 1
    /\ llmInput' = CreateChatPrompt(JoinDocuments(retrieved),
                                    FormatHistory(chatHistory), Words(chatQuery))
    /\ \/ \E f \in Failures :
             /\ ChatFinish(ChatRouterResponse([ok |-> FALSE, exc |-> f]))
             /\ failedAt' = "model"
             /\ UNCHANGED <<answer, cost>>
       \/ \E ans \in {"ans"} :
             LET outcome == ProcessChatResult(chatQuery, chatHistory, retrieved, ans)
             IN  /\ answer' = ans
                 /\ cost' = ChatCost(chatQuery, chatHistory, ans)
                 /\ ChatFinish(ChatRouterResponse(outcome))
                 /\ failedAt' = IF outcome.ok THEN "none" ELSE "cost"
    /\ UNCHANGED <<envVars, convVars, waiting, built, store, chunkFiles, ingestVars, chatQuery,
                   chatHistory, vsCalls, retrieved, lastStored, ingested>>

(***************************************************************************)
(* Raw chat (process_raw_chat in src/app/services/chat_service.py, raw_chat *)
(* in src/app/routers/chat.py).                                            *)
(***************************************************************************)

\* Variant: the assistant turn of a pair is put before its user turn.
RECURSIVE ServiceConvertHistoryToMessages_AssistantFirst(_)
ServiceConvertHistoryToMessages_AssistantFirst(history) ==
    IF Len(history) = 0 THEN <<>>
    ELSE <<AIMessage(Words(history[1][2])), HumanMessage(Words(history[1][1]))>>
         \o ServiceConvertHistoryToMessages_AssistantFirst(Tail(history))

\* chat_service.convert_history_to_messages: two messages per pair, no checks.
RECURSIVE ServiceConvertHistoryToMessages(_)
ServiceConvertHistoryToMessages(history) ==
    IF Len(history) = 0 THEN <<>>
    ELSE <<HumanMessage(Words(history[1][1])), AIMessage(Words(history[1][2]))>>
         \o ServiceConvertHistoryToMessages(Tail(history))

\* process_raw_chat: the history messages with the current query appended.
RawChatMessages(query, history) ==
    Append(ServiceConvertHistoryToMessages(history), HumanMessage(Words(query)))

\* process_raw_chat: the text the cost is computed over.
RawChatCostInput(query, history) ==
    IF NotList(history) THEN Words(query)
    ELSE FormatHistory(history) \o <<"\n", "Human: ">> \o Words(query)

\* process_raw_chat: the call of calculate_cost_info.
RawChatCost(query, history, ans) ==
    CostCall(RawChatCostInput(query, history), Words(ans), FALSE)

\* process_raw_chat after llm.invoke returned: answer and cost info.
ProcessRawChatResult(query, history, ans) ==
    LET cost_info == RawChatCost(query, history, ans).outcome
    IN  IF ~cost_info.ok THEN cost_info
        ELSE Return([answer |-> ans,
                     processing_time |-> "elapsed",
                     cost_info |-> cost_info.value])

\* process_raw_chat's except clauses: the exception raised to the router.
ProcessRawChatExcept(exc) ==
    IF exc.type = "ValueError"
    THEN [type |-> "ValueError", msg |-> <<ConfigurationErrorPhrase, ": ">> \o exc.msg]
    ELSE [type |-> "Exception", msg |-> <<ProcessingErrorPhrase, ": ">> \o exc.msg]

\* process_raw_chat is a plain function; its return value is not awaitable.
ProcessRawChatIsCoroutine == FALSE

\* raw_chat router, except clause: the 500 response for an exception.
RawChatErrorResponse(exc) ==
    [endpoint |-> "raw", code |-> 500,
     body |-> [detail |->
        IF Contains(exc.msg, OpenAIErrorPhrase)
        THEN <<OpenAIErrorPhrase, ": ">> \o exc.msg
        ELSE <<ProcessingErrorPhrase, ": ">> \o exc.msg]]

\* raw_chat router, try block: `response = await process_raw_chat(request)`.
RawChatRouterResponse(outcome) ==
    IF ~outcome.ok THEN RawChatErrorResponse(ProcessRawChatExcept(outcome.exc))
    ELSE IF ProcessRawChatIsCoroutine
    THEN [endpoint |-> "raw", code |-> 200, body |-> outcome.value]
    ELSE RawChatErrorResponse(
            [type |-> "TypeError",
             msg |-> <<"object RawChatResponse can't be used in 'await' expression">>])

\* raw_chat router: `if not request.query`
RawQueryRejected(q) == NotStr(q)

\* POST /chat/raw is received: the router's validation, then process_raw_chat
\* up to the model call (model handle).
RawChatStart(q, h) ==
    /\ req = "none"
    /\ chatQuery' = q
    /\ chatHistory' = h
    /\ vsCalls' = 0
    /\ llmCalls' = 0
    /\ retrieved' = <<>>
    /\ answer' = ""
    /\ llmInput' = <<>>
    /\ cost' = NoCost
    /\ IngestLocalsCleared
    /\ built' = IF RawQueryRejected(q) \/ NotStr(settings.openai_api_key)
                THEN NoClients ELSE ConstructChatOpenAI(NoClients)
    /\ IF RawQueryRejected(q)
       THEN /\ resp' = [endpoint |-> "raw", code |-> 422,
                        body |-> [detail |-> <<"Query cannot be empty">>]]
            /\ failedAt' = "none"
            /\ UNCHANGED <<req, pc>>
       ELSE IF NotStr(settings.openai_api_key)
       THEN /\ resp' = RawChatRouterResponse(Raise("ValueError", <<ApiKeyMissingPhrase>>))
            /\ failedAt' = "config"
            /\ UNCHANGED <<req, pc>>
       ELSE /\ req' = "raw"
            /\ pc' = "invoke"
            /\ resp' = NoResp
            /\ failedAt' = "none"
    /\ UNCHANGED <<envVars, convVars, waiting, store, chunkFiles, lastStored, ingested>>

\* llm.invoke(messages); then the rest of process_raw_chat and of the router.
RawChatInvoke ==
    /\ req = "raw" /\ pc = "invoke"
    /\ llmCalls' = llmCalls + 1
    /\ llmInput' = RawChatMessages(chatQuery, chatHistory)
    /\ \/ \E f \in Failures :
             /\ ChatFinish(RawChatRouterResponse([ok |-> FALSE, exc |-> f]))
             /\ failedAt' = "model"
             /\ UNCHANGED <<answer, cost>>
       \/ \E ans \in {"ans"} :
             LET outcome == ProcessRawChatResult(chatQuery, chatHistory, ans)
             IN  /\ answer' = ans
                 /\ cost' = RawChatCost(chatQuery, chatHistory, ans)
                 /\ ChatFinish(RawChatRouterResponse(outcome))
                 /\ failedAt' = IF outcome.ok THEN "none" ELSE "cost"
    /\ UNCHANGED <<envVars, convVars, waiting, built, store, chunkFiles, ingestVars, chatQuery,
                   chatHistory, vsCalls, retrieved, lastStored, ingested>>

(***************************************************************************)
(* History conversion (src/app/utils/history_utils.py).                    *)
(***************************************************************************)

\* Variant: the assistant turn of a pair is put before its user turn.
RECURSIVE ConvertItems_AssistantFirst(_, _, _)
ConvertItems_AssistantFirst(items, i, messages) ==
    IF i > Len(items) THEN Return(messages)
    ELSE LET pair == items[i]
         IN  IF pair.type # "tuple" \/ Len(pair.elems) # 2
             THEN Raise("TypeError", <<"History item", ToString(i - 1),
                                       "must be a tuple of (human_message, ai_message)">>)
             ELSE IF pair.elems[1].type # "str" \/ pair.elems[2].type # "str"
             THEN Raise("TypeError", <<"History item", ToString(i - 1),
                                       "contains non-string messages">>)
             ELSE ConvertItems_AssistantFirst(items, i + 1,
                     messages \o <<AIMessage(Words(pair.elems[2].val)),
                                   HumanMessage(Words(pair.elems[1].val))>>)

\* The loop of convert_history_to_messages from item i on, `messages` holding
\* what the items before it produced.
RECURSIVE ConvertItems(_, _, _)
ConvertItems(items, i, messages) ==
    IF i > Len(items) THEN Return(messages)
    ELSE LET pair == items[i]
         IN  IF pair.type # "tuple" \/ Len(pair.elems) # 2
             THEN Raise("TypeError", <<"History item", ToString(i - 1),
                                       "must be a tuple of (human_message, ai_message)">>)
             ELSE IF pair.elems[1].type # "str" \/ pair.elems[2].type # "str"
             THEN Raise("TypeError", <<"History item", ToString(i - 1),
                                       "contains non-string messages">>)
             ELSE ConvertItems(items, i + 1,
                     messages \o <<HumanMessage(Words(pair.elems[1].val)),
                                   AIMessage(Words(pair.elems[2].val))>>)

\* Variant: None is read as the empty history.
ConvertHistoryToMessages_NoneAsEmpty(history) ==
    IF history.type = "NoneType" THEN Return(<<>>)
    ELSE ConvertItems(history.elems, 1, <<>>)

\* history_utils.convert_history_to_messages
ConvertHistoryToMessages(history) ==
    IF history.type = "NoneType"
    THEN Raise("TypeError", <<"History cannot be None">>)
    ELSE ConvertItems(history.elems, 1, <<>>)

\* The arguments the conversion is applied to: None, and the lists of up to
\* MaxItems items, each a pair of strings or an item of another shape.
WellFormedItems ==
    {PyTuple(<<PyStr("u"), PyStr("a")>>), PyTuple(<<PyStr("v"), PyStr("b")>>)}

MalformedItems ==
    {PyStr("not a tuple"),
     PyList(<<PyStr("u"), PyStr("a")>>),
     PyTuple(<<PyStr("u")>>),
     PyTuple(<<PyStr("u"), PyStr("a"), PyStr("x")>>),
     PyTuple(<<PyNone, PyStr("a")>>),
     PyTuple(<<PyStr("u"), PyNone>>)}

PyHistories ==
    {PyNone} \cup {PyList(items) :
                     items \in SeqsUpTo(WellFormedItems \cup MalformedItems, MaxItems)}

ConvertInit ==
    /\ settings = SettingsFor("sk-test", TRUE)
    /\ dirExists = FALSE
    /\ pdfs = <<>>
    /\ content \in [Range(pdfs) -> Contents]
    /\ RequestsIdle
    /\ convIn \in PyHistories
    /\ convOut = Pending

\* convert_history_to_messages(history) is called.
ConvertCall ==
    /\ convOut = Pending
    /\ convOut' = ConvertHistoryToMessages(convIn)
    /\ UNCHANGED <<envVars, convIn, waiting, built, store, chunkFiles, req, pc, ingestVars,
                   chatVars, resp, lastStored, ingested>>

ConvertNext == ConvertCall

ConvertSpec == ConvertInit /\ [][ConvertNext]_vars

(***************************************************************************)
(* Summary (src/app/routers/summary.py, src/app/llm/summary_chain.py) and  *)
(* the routes of the application (src/app/main.py).                        *)
(***************************************************************************)

\* The routers main.py registers on the application.
IncludedRouters == {"chat", "ingest"}

\* The request model's history, List[Tuple[str, str]], as Python values.
AsPyHistory(h) ==
    PyList([i \in DOMAIN h |-> PyTuple(<<PyStr(h[i][1]), PyStr(h[i][2])>>)])

\* str(messages): the printed form of the message list.
RECURSIVE StrMessages(_)
StrMessages(messages) ==
    IF Len(messages) = 0 THEN <<>>
    ELSE <<messages[1].type, "(content=">> \o messages[1].content \o <<")">>
         \o StrMessages(Tail(messages))

\* SUMMARY_PROMPT of summary_chain.py, filled in: one human message.
SummaryPrompt(block) ==
    <<HumanMessage(<<"You are a helpful AI assistant tasked with summarizing a conversation.",
                     "Conversation:\n">> \o block \o <<"\n\n", "Summary:">>)>>

\* generate_summary: the call of calculate_cost_info.
SummaryCost(messages, summary) == CostCall(StrMessages(messages), Words(summary), FALSE)

\* generate_summary: the 500 response of both except clauses.
SummaryErrorResponse(exc) ==
    [endpoint |-> "summary", code |-> 500,
     body |-> [detail |-> <<"Error generating summary", ": ">> \o exc.msg]]

\* generate_summary after llm.ainvoke returned.
SummaryResult(messages, summary) ==
    LET cost_info == SummaryCost(messages, summary).outcome
    IN  IF ~cost_info.ok THEN SummaryErrorResponse(cost_info.exc)
        ELSE [endpoint |-> "summary", code |-> 200,
              body |-> [summary |-> summary,
                        processing_time |-> "elapsed",
                        cost_info |-> cost_info.value]]

\* A request starts with no locals of an earlier chat request.
SummaryLocals(h) ==
    /\ chatQuery' = ""
    /\ chatHistory' = h
    /\ vsCalls' = 0
    /\ llmCalls' = 0
    /\ retrieved' = <<>>
    /\ answer' = ""
    /\ llmInput' = <<>>
    /\ cost' = NoCost
    /\ IngestLocalsCleared

\* POST /summary reaches the application: no registered route matches it.
AppSummary(h) ==
    /\ req = "none"
    /\ "summary" \notin IncludedRouters
    /\ SummaryLocals(h)
    /\ built' = NoClients
    /\ failedAt' = "none"
    /\ resp' = [endpoint |-> "summary", code |-> 404,
                body |-> [detail |-> <<"Not Found">>]]
    /\ UNCHANGED <<envVars, convVars, waiting, store, chunkFiles, req, pc, lastStored,
                   ingested>>

\* generate_summary is entered: the history check, the conversion and the
\* model handle.
SummaryStart(h) ==
    /\ req = "none"
    /\ SummaryLocals(h)
    /\ LET conv == ConvertHistoryToMessages(AsPyHistory(h))
       IN  built' = IF NotList(h) \/ ~conv.ok \/ NotList(conv.value)
                         \/ NotStr(settings.openai_api_key)
                    THEN NoClients ELSE ConstructChatOpenAI(NoClients)
    /\ LET conv == ConvertHistoryToMessages(AsPyHistory(h))
       IN  IF NotList(h)
           THEN /\ resp' = [endpoint |-> "summary", code |-> 422,
                            body |-> [detail |->
                               <<"History cannot be empty for summary generation">>]]
                /\ failedAt' = "none"
                /\ UNCHANGED <<req, pc>>
           ELSE IF ~conv.ok
           THEN /\ resp' = SummaryErrorResponse(conv.exc)
                /\ failedAt' = "history"
                /\ UNCHANGED <<req, pc>>
           ELSE IF NotList(conv.value)
           THEN /\ resp' = [endpoint |-> "summary", code |-> 422,
                            body |-> [detail |-> <<"Invalid chat history format">>]]
                /\ failedAt' = "history"
                /\ UNCHANGED <<req, pc>>
           ELSE IF NotStr(settings.openai_api_key)
           THEN /\ resp' = SummaryErrorResponse([type |-> "ValueError",
                                                 msg |-> <<ApiKeyMissingPhrase>>])
                /\ failedAt' = "config"
                /\ UNCHANGED <<req, pc>>
           ELSE /\ req' = "summary"
                /\ pc' = "invoke"
                /\ resp' = NoResp
                /\ failedAt' = "none"
    /\ UNCHANGED <<envVars, convVars, waiting, store, chunkFiles, lastStored, ingested>>

\* await llm.ainvoke(messages); then the cost computation and the response.
SummaryInvoke ==
    /\ req = "summary" /\ pc = "invoke"
    /\ llmCalls' = llmCalls + 1
    /\ LET messages == ConvertHistoryToMessages(AsPyHistory(chatHistory)).value
       IN  /\ llmInput' = messages
           /\ \/ \E f \in Failures :
                    /\ ChatFinish(SummaryErrorResponse(f))
                    /\ failedAt' = "model"
                    /\ UNCHANGED <<answer, cost>>
              \/ \E summary \in {"ans"} :
                    /\ answer' = summary
                    /\ cost' = SummaryCost(messages, summary)
                    /\ ChatFinish(SummaryResult(messages, summary))
                    /\ failedAt' = IF SummaryCost(messages, summary).outcome.ok
                                   THEN "none" ELSE "cost"
    /\ UNCHANGED <<envVars, convVars, waiting, built, store, chunkFiles, ingestVars, chatQuery,
                   chatHistory, vsCalls, retrieved, lastStored, ingested>>

SummaryNext ==
    \/ \E h \in Histories : SummaryStart(h)
    \/ SummaryInvoke

SummarySpec == Init /\ [][SummaryNext]_vars

(***************************************************************************)
(* Requests in flight at the same time.  Both routers are `async def` and   *)
(* call their synchronous service directly, so the event loop serves one   *)
(* request to its end while a request that arrived meanwhile waits; both   *)
(* use the one persistent collection of get_vectordb / from_documents.      *)
(***************************************************************************)

\* POST /chat arrives while POST /ingest is being served.
ChatArrive(q) ==
    /\ req = "ingest"
    /\ ~waiting.arrived
    /\ waiting' = [arrived |-> TRUE, query |-> q, store |-> store]
    /\ UNCHANGED <<envVars, convVars, built, store, chunkFiles, req, pc, ingestVars,
                   chatVars, resp, lastStored, ingested>>

\* An ingestion is started while no chat request is waiting.
OverlapIngestStart == ~waiting.arrived /\ IngestStart

\* The waiting chat request is served once the ingestion has responded.
OverlapChatStart ==
    /\ waiting.arrived
    /\ resp.endpoint = "ingest"
    /\ ChatStart(waiting.query, <<>>)

OverlapNext ==
    \/ OverlapIngestStart
    \/ IngestExtract
    \/ IngestChunk
    \/ IngestEmbed
    \/ IngestStore
    \/ IngestPersist
    \/ IngestSave
    \/ IngestRespond
    \/ \E q \in Queries : ChatArrive(q)
    \/ OverlapChatStart
    \/ ChatRetrieve
    \/ ChatGenerate

OverlapSpec == Init /\ [][OverlapNext]_vars

\* Every handler of the repository, the summary handler included.
HandlersNext ==
    \/ IngestStart
    \/ IngestExtract
    \/ IngestChunk
    \/ IngestEmbed
    \/ IngestStore
    \/ IngestPersist
    \/ IngestSave
    \/ IngestRespond
    \/ \E q \in Queries, h \in Histories : ChatStart(q, h)
    \/ ChatRetrieve
    \/ ChatGenerate
    \/ \E q \in Queries, h \in Histories : RawChatStart(q, h)
    \/ RawChatInvoke
    \/ \E h \in Histories : SummaryStart(h)
    \/ SummaryInvoke

HandlersSpec == Init /\ [][HandlersNext]_vars

Next ==
    \/ IngestStart
    \/ IngestExtract
    \/ IngestChunk
    \/ IngestEmbed
    \/ IngestStore
    \/ IngestPersist
    \/ IngestSave
    \/ IngestRespond
    \/ \E q \in Queries, h \in Histories : ChatStart(q, h)
    \/ ChatRetrieve
    \/ ChatGenerate
    \/ \E q \in Queries, h \in Histories : RawChatStart(q, h)
    \/ RawChatInvoke
    \/ \E h \in Histories : AppSummary(h)

Spec == Init /\ [][Next]_vars

TypeOK ==
    /\ req \in {"none", "ingest", "chat", "raw", "summary"}
    /\ Len(store) <= MaxChunks
    /\ vsCalls \in 0..1
    /\ llmCalls \in 0..1


(***************************************************************************)
(* Properties.                                                             *)
(***************************************************************************)

AnyWithStatus(rs, st) == \E i \in DOMAIN rs : rs[i].status = st
AllWithStatus(rs, st) == \A i \in DOMAIN rs : rs[i].status = st

NoDuplicateIds(st) == \A i, j \in DOMAIN st : i # j => st[i].id # st[j].id

\* C1: a POST /chat whose query is the empty string, with any history, is
\* answered 422 with a `detail` field; it never enters the pipeline, and no
\* vector-store query and no model call is made while serving it.
C1_EmptyQueryRejected ==
    /\ req = "chat" => chatQuery # ""
    /\ (resp.endpoint = "chat" /\ chatQuery = "") =>
          /\ resp.code = 422
          /\ "detail" \in DOMAIN resp.body
          /\ vsCalls = 0
          /\ llmCalls = 0

C1_Witness ==
    /\ resp.endpoint = "chat"
    /\ chatQuery = ""
    /\ Len(chatHistory) > 0
    /\ resp.code = 422

\* C2: a POST /chat with a non-empty query whose retrieval and model call
\* both succeeded is answered 200 with answer, sources, processing_time and
\* cost_info in the body.
C2_SuccessGives200 ==
    (resp.endpoint = "chat" /\ chatQuery # "" /\ vsCalls = 1 /\ answer # "") =>
        /\ resp.code = 200
        /\ {"answer", "sources", "processing_time", "cost_info"} \subseteq DOMAIN resp.body

\* C3: a failed RAG chat request is answered 500; a retrieval failure yields a
\* detail naming the vector store, a model-call failure a detail naming the
\* model provider, and neither is classified as the other.
C3_FailureKindsDistinguished ==
    /\ (resp.endpoint = "chat" /\ failedAt = "retrieval") =>
          /\ resp.code = 500
          /\ Contains(resp.body.detail, VectorStoreErrorPhrase)
          /\ Head(resp.body.detail) # OpenAIErrorPhrase
    /\ (resp.endpoint = "chat" /\ failedAt = "model") =>
          /\ resp.code = 500
          /\ Contains(resp.body.detail, OpenAIErrorPhrase)
          /\ Head(resp.body.detail) # VectorStoreErrorPhrase

\* C4: ingest_directory returns exactly one record per PDF found, in the order
\* found; a document that fails gets a record with status "error", and the
\* documents after it are still processed.
C4_OneRecordPerPdf ==
    /\ req = "ingest" =>
          /\ Len(results) = ingIdx - 1
          /\ \A i \in DOMAIN results : results[i].pdf_path = ingFiles[i]
    /\ (resp.endpoint = "ingest" /\ dirExists) =>
          /\ Len(results) = Len(pdfs)
          /\ \A i \in DOMAIN results :
                /\ results[i].pdf_path = PdfPath(pdfs[i])
                /\ results[i].status \in {"success", "error"}
                /\ content[pdfs[i]].kind = "corrupt" => results[i].status = "error"

C4_Witness ==
    /\ resp.endpoint = "ingest"
    /\ Len(results) = 2
    /\ results[1].status = "error"
    /\ results[2].status = "success"

\* C5 (as stated): whenever at least one PDF was found and at least one record
\* has status "error", POST /ingest answers 207 "partial" with one record per
\* file found.
C5_AnyErrorGives207 ==
    (resp.endpoint = "ingest" /\ Len(results) >= 1 /\ AnyWithStatus(results, "error")) =>
        /\ resp.code = 207
        /\ resp.body.status = "partial"
        /\ Len(resp.body.results) = Len(pdfs)

\* C5 (amended): with at least one "error" record and at least one "success"
\* record, POST /ingest answers 207 "partial" with one record per file found;
\* when every file found failed it answers 500 "error" with the same records.
C5_MixedGives207 ==
    /\ (resp.endpoint = "ingest" /\ AnyWithStatus(results, "error")
            /\ AnyWithStatus(results, "success")) =>
          /\ resp.code = 207
          /\ resp.body.status = "partial"
          /\ resp.body.results = results
          /\ Len(resp.body.results) = Len(pdfs)
    /\ (resp.endpoint = "ingest" /\ Len(results) >= 1
            /\ AllWithStatus(results, "error")) =>
          /\ resp.code = 500
          /\ resp.body.status = "error"
          /\ resp.body.detail = <<"Failed to process all PDF files">>
          /\ resp.body.results = results

C5_Witness ==
    /\ resp.endpoint = "ingest"
    /\ resp.code = 207
    /\ Len(resp.body.results) = 2
    /\ Cardinality({i \in 1..2 : resp.body.results[i].status = "error"}) = 1

\* C6: when the directory exists and holds no PDF, POST /ingest answers 404
\* with status "error" and the no-files detail, and no vector-store write and
\* no chunk-file write was made while serving the request.
C6_NoPdfsGives404 ==
    (resp.endpoint = "ingest" /\ dirExists /\ Len(results) = 0) =>
        /\ resp.code = 404
        /\ resp.body.status = "error"
        /\ resp.body.detail = <<"No PDF files found in the data directory">>
        /\ storeWrites = 0
        /\ fileWrites = 0

C6_Witness ==
    /\ resp.endpoint = "ingest"
    /\ dirExists
    /\ pdfs = <<>>
    /\ resp.code = 404

\* C7: when the directory does not exist, ingest_directory never reaches a
\* file (no extraction, embedding, store or chunk-file write happens) and
\* POST /ingest answers 500 with status "error" and a detail that begins
\* "Error during ingestion".
C7_MissingDirectoryGives500 ==
    /\ ~dirExists => req # "ingest"
    /\ (~dirExists /\ resp.endpoint = "ingest") =>
          /\ resp.code = 500
          /\ resp.body.status = "error"
          /\ Head(resp.body.detail) = "Error during ingestion"
          /\ Len(results) = 0
          /\ storeWrites = 0
          /\ fileWrites = 0
          /\ Len(store) = 0
          /\ chunkFiles = {}

C7_Witness ==
    /\ ~dirExists
    /\ resp.endpoint = "ingest"
    /\ resp.code = 500

\* C8: the response for a directory without PDFs (404, no results) differs in
\* status code and in body shape from the response for files that were found
\* and all failed, and only the latter carries the per-file results.
C8_EmptyDistinctFromAllFailed ==
    /\ (resp.endpoint = "ingest" /\ dirExists /\ Len(pdfs) = 0) =>
          /\ resp.code = 404
          /\ "results" \notin DOMAIN resp.body
    /\ (resp.endpoint = "ingest" /\ Len(pdfs) > 0 /\ AllWithStatus(results, "error")) =>
          /\ resp.code # 404
          /\ DOMAIN resp.body # DOMAIN IngestBody404.body
          /\ "results" \in DOMAIN resp.body
          /\ resp.body.results = results
          /\ Len(results) = Len(pdfs)

C8_Witness ==
    /\ resp.endpoint = "ingest"
    /\ Len(pdfs) = 2
    /\ Len(results) = 2
    /\ AllWithStatus(results, "error")
    /\ resp.code = 500

\* C9: once a document has been ingested, a retrieval whose query text is
\* verbatim the text of one of its chunks returns that chunk among the
\* results.  Stated in its weakest reading: some returned document carries
\* the chunk's text.
C9_VerbatimChunkRetrieved ==
    (req = "chat" /\ pc = "generate") =>
        \A p \in ingested : \A i \in DOMAIN ProcessPdf(p) :
            ProcessPdf(p)[i].page_content = chatQuery =>
                \E j \in DOMAIN retrieved :
                    retrieved[j].page_content = ProcessPdf(p)[i].page_content

\* C10: a vector-store write of the document that was also the last one
\* written leaves the collection with the same entries as before it, one per
\* chunk id.
C10_ReingestIdempotent ==
    [][(storeWrites' = storeWrites + 1 /\ lastStored.path = ingFiles[ingIdx]) =>
          /\ Range(store') = Range(store)
          /\ Len(store') = Len(store)
          /\ NoDuplicateIds(store')]_vars

C10_Witness ==
    /\ lastStored.times = 2
    /\ Len(store) = 2
    /\ req = "ingest"
    /\ pc = "persist"

StoreIds(st) == {st[i].id : i \in DOMAIN st}

C12_ChunkPositions ==
    /\ (req = "ingest" /\ pc \in {"embed", "store", "persist", "save"}) =>
          LET n == Len(SplitText(CurrentPath))
              ids == ChunkIds(chunks)
          IN  /\ Len(chunks) = n
              /\ Len(ids) = n
              /\ \A i \in 1..n :
                    /\ chunks[i].metadata.chunk_index = i - 1
                    /\ chunks[i].metadata.total_chunks = n
                    /\ chunks[i].metadata.chunk_id = ToString(chunks[i].metadata.chunk_index)
                    /\ ids[i] = chunks[i].metadata.chunk_id
              /\ \A i, j \in 1..n : i # j => ids[i] # ids[j]
    /\ (req = "ingest" /\ pc = "persist") =>
          \A i \in DOMAIN chunks :
             \E j \in DOMAIN store :
                /\ store[j].id = ToString(i - 1)
                /\ store[j].text = chunks[i].page_content
                /\ store[j].metadata = chunks[i].metadata

C12_Witness ==
    /\ req = "ingest"
    /\ pc = "persist"
    /\ Len(chunks) = 2
    /\ chunks[2].metadata.chunk_index = 1

\* C13: every call of calculate_cost_info, cached or not, returns a CostInfo
\* whose token counts are those of the two texts, whose costs are the counts
\* times the rates held in settings, and whose totals are the sums; for
\* non-empty texts the counts and the total cost are positive.
C13_CostInfoReturned ==
    cost.called =>
        /\ cost.outcome.ok
        /\ LET c == cost.outcome.value
               rate == IF cost.is_cached
                       THEN settings.model_cached_input_cost_per_token
                       ELSE settings.model_input_cost_per_token
           IN  /\ c.input_tokens = CalculateTokens(cost.input_text)
               /\ c.output_tokens = CalculateTokens(cost.output_text)
               /\ c.total_tokens = c.input_tokens + c.output_tokens
               /\ c.input_cost = c.input_tokens * rate
               /\ c.output_cost = c.output_tokens * settings.model_output_cost_per_token
               /\ c.total_cost = c.input_cost + c.output_cost
               /\ (Len(cost.input_text) > 0 /\ Len(cost.output_text) > 0) =>
                     (c.input_tokens > 0 /\ c.output_tokens > 0 /\ c.total_cost > 0)

\* C14: the response of a RAG chat request whose model call succeeded carries
\* a cost info priced at the cached input rate and flagged is_cached = TRUE;
\* that of a raw chat request one priced at the standard input rate and
\* flagged is_cached = FALSE.
C14_CostTierFlagged ==
    /\ (resp.endpoint = "chat" /\ answer # "") =>
          /\ cost.called /\ cost.is_cached
          /\ "cost_info" \in DOMAIN resp.body
          /\ "is_cached" \in DOMAIN resp.body.cost_info
          /\ resp.body.cost_info.is_cached = TRUE
          /\ resp.body.cost_info.input_cost =
                resp.body.cost_info.input_tokens
                   * ConfiguredValues("", TRUE).model_cached_input_cost_per_token
    /\ (resp.endpoint = "raw" /\ answer # "") =>
          /\ cost.called /\ ~cost.is_cached
          /\ "cost_info" \in DOMAIN resp.body
          /\ "is_cached" \in DOMAIN resp.body.cost_info
          /\ resp.body.cost_info.is_cached = FALSE
          /\ resp.body.cost_info.input_cost =
                resp.body.cost_info.input_tokens
                   * ConfiguredValues("", TRUE).model_input_cost_per_token

\* C15: with a configured cached input rate below the standard input rate,
\* for the texts of any cost computation the cached pricing yields an
\* input_cost and a total_cost no greater than the standard pricing, with the
\* same token counts and the same output_cost.
C15_CachedNotDearer ==
    (/\ cost.called
     /\ ConfiguredValues("", TRUE).model_cached_input_cost_per_token
           < ConfiguredValues("", TRUE).model_input_cost_per_token) =>
        LET cached == CalculateCostInfo(cost.input_text, cost.output_text, TRUE)
            standard == CalculateCostInfo(cost.input_text, cost.output_text, FALSE)
        IN  /\ cached.ok
            /\ standard.ok
            /\ cached.value.input_cost <= standard.value.input_cost
            /\ cached.value.total_cost <= standard.value.total_cost
            /\ cached.value.input_tokens = standard.value.input_tokens
            /\ cached.value.output_tokens = standard.value.output_tokens
            /\ cached.value.total_tokens = standard.value.total_tokens
            /\ cached.value.output_cost = standard.value.output_cost

\* C16: a POST /summary to the application with an empty (or omitted, hence
\* defaulted to empty) history is answered 422 with a detail saying the
\* history cannot be empty, and the model is not invoked.
C16_EmptyHistoryGives422 ==
    (resp.endpoint = "summary" /\ NotList(chatHistory)) =>
        /\ resp.code = 422
        /\ resp.body.detail = <<"History cannot be empty for summary generation">>
        /\ llmCalls = 0

\* C17: a summary request with a non-empty well-formed history (and a model
\* that is configured) invokes the model exactly once, on the summarization
\* prompt template with the history embedded as one block of labeled turns.
C17_SummaryPromptOnce ==
    (/\ resp.endpoint = "summary"
     /\ Len(chatHistory) > 0
     /\ ~NotStr(settings.openai_api_key)) =>
        /\ llmCalls = 1
        /\ llmInput = SummaryPrompt(FormatHistory(chatHistory))

\* C18: the messages a raw chat request with n history pairs hands to the
\* model are 2n+1: for the i-th pair a user message then an assistant message,
\* in the order of the history, and last one user message holding the query;
\* no vector-store query is made while serving the request.
C18_RawChatMessages ==
    /\ (req = "raw" \/ resp.endpoint = "raw") => vsCalls = 0
    /\ (resp.endpoint = "raw" /\ llmCalls = 1) =>
          LET n == Len(chatHistory)
          IN  /\ Len(llmInput) = 2 * n + 1
              /\ \A i \in 1..n :
                    /\ llmInput[2 * i - 1].type = "human"
                    /\ llmInput[2 * i - 1].content = Words(chatHistory[i][1])
                    /\ llmInput[2 * i].type = "ai"
                    /\ llmInput[2 * i].content = Words(chatHistory[i][2])
              /\ llmInput[2 * n + 1].type = "human"
              /\ llmInput[2 * n + 1].content = Words(chatQuery)

C18_Witness ==
    /\ resp.endpoint = "raw"
    /\ llmCalls = 1
    /\ Len(chatHistory) = MaxHistory
    /\ Len(llmInput) = 2 * MaxHistory + 1

\* A list whose items are all tuples of exactly two strings.
WellFormedHistory(history) ==
    /\ history.type = "list"
    /\ \A i \in DOMAIN history.elems :
          /\ history.elems[i].type = "tuple"
          /\ Len(history.elems[i].elems) = 2
          /\ \A k \in 1..2 : history.elems[i].elems[k].type = "str"

\* C19: for a well-formed history of n pairs convert_history_to_messages
\* returns 2n messages, the (2i-1)-th a user message with the i-th pair's user
\* text and the 2i-th an assistant message with its assistant text (i from 1);
\* for the empty history it returns the empty list.
C19_WellFormedConverted ==
    (convOut # Pending /\ WellFormedHistory(convIn)) =>
        LET n == Len(convIn.elems)
        IN  /\ convOut.ok
            /\ Len(convOut.value) = 2 * n
            /\ \A i \in 1..n :
                  /\ convOut.value[2 * i - 1] = HumanMessage(Words(convIn.elems[i].elems[1].val))
                  /\ convOut.value[2 * i] = AIMessage(Words(convIn.elems[i].elems[2].val))
            /\ n = 0 => convOut.value = <<>>

C19_Witness ==
    /\ convOut # Pending
    /\ WellFormedHistory(convIn)
    /\ Len(convIn.elems) = MaxItems
    /\ convIn.elems[1] # convIn.elems[2]
    /\ Len(convOut.value) = 2 * MaxItems

\* C20: when the history is None, or some item is not a tuple of exactly two
\* elements, or some element of a pair is not a string, wherever in the list,
\* convert_history_to_messages raises TypeError and returns no list.
C20_MalformedRaisesTypeError ==
    (convOut # Pending /\ ~WellFormedHistory(convIn)) =>
        /\ ~convOut.ok
        /\ convOut.exc.type = "TypeError"
        /\ "value" \notin DOMAIN convOut

C20_Witness ==
    /\ convOut # Pending
    /\ convIn.type = "list"
    /\ Len(convIn.elems) = MaxItems
    /\ \A i \in 1..(MaxItems - 1) : convIn.elems[i] \in WellFormedItems
    /\ convIn.elems[MaxItems] \in MalformedItems
    /\ ~convOut.ok

\* C21: no chat, raw chat or ingestion request fails because of the
\* configuration: no request is ended by a configuration error, and no
\* per-file record reports the missing provider key.
C21_NoConfigurationErrorInRequest ==
    /\ failedAt # "config"
    /\ resp.endpoint \in {"chat", "raw"} =>
          ~("detail" \in DOMAIN resp.body
              /\ Contains(resp.body.detail, ApiKeyMissingPhrase))
    /\ \A i \in DOMAIN results :
          results[i].status = "error" => results[i].error # <<ApiKeyMissingPhrase>>

\* C22: a chat request in flight together with an ingestion shares no state
\* with it: what its retriever reads is the collection as it was when the
\* request arrived, whatever the ingestion wrote meanwhile.
C22_WaitingChatReadsArrivalStore ==
    (waiting.arrived /\ req = "chat" /\ pc = "generate") =>
        retrieved \in TopK(waiting.store, chatQuery, settings.chat_top_k)

\* The order of the steps of ingest_pdf.
StepOrder ==
    {<<"extract", "chunk">>, <<"chunk", "embed">>, <<"embed", "store">>,
     <<"store", "persist">>, <<"persist", "save">>}

\* C23: for each document the steps run in the order extract, chunk, embed,
\* store, persist; the collection is written only at the store step, with
\* the finished chunks of that document; chunk files are written only at the
\* last step, with save_chunks enabled, after the store write of that
\* document; a step that fails records the error and goes to the next
\* document, changing neither the collection nor the chunk files; and only
\* the last step records a success.
C23_StepsInOrder ==
    [][(req = "ingest" /\ pc # "respond") =>
          /\ \/ ingIdx' = ingIdx /\ <<pc, pc'>> \in StepOrder /\ results' = results
             \/ /\ ingIdx' = ingIdx + 1
                /\ pc' \in {"extract", "respond"}
                /\ results' = Append(results, results'[Len(results')])
                /\ results'[Len(results')].pdf_path = CurrentPath
                /\ results'[Len(results')].status = "success" => pc = "save"
                /\ (results'[Len(results')].status = "error" /\ pc # "save") =>
                      (store' = store /\ chunkFiles' = chunkFiles
                         /\ storeWrites' = storeWrites /\ fileWrites' = fileWrites)
          /\ (store' # store \/ storeWrites' # storeWrites) =>
                (pc = "store" /\ pc' = "persist" /\ chunks = ProcessPdf(CurrentPath))
          /\ (chunkFiles' # chunkFiles \/ fileWrites' # fileWrites) =>
                (pc = "save" /\ settings.save_chunks /\ lastStored.path = CurrentPath)
      ]_vars

C23_Witness ==
    /\ req = "ingest" /\ pc = "respond"
    /\ settings.save_chunks
    /\ Len(results) = 2
    /\ results[1].status = "error"
    /\ results[2].status = "success"
    /\ storeWrites = 1
    /\ fileWrites = 2

\* C24: a document whose ingestion ended with status "error", and that was
\* never ingested successfully, has no entry in the vector store.
C24_ErrorLeavesNoEntry ==
    \A i \in DOMAIN results :
       (results[i].status = "error" /\ results[i].pdf_path \notin ingested) =>
          \A k \in DOMAIN store :
             store[k].metadata.file_path # results[i].pdf_path

\* C25: while and after a RAG chat request is served, the vector store has
\* been queried at most once and the model invoked at most once; a failed
\* retrieval ends the request before any model call and a failed model call
\* ends it after one query and one call, the response being the one built
\* from that failure; and a request whose model call returned, or that got a
\* 200, made exactly one query and one call.
C25_OneQueryOneCall ==
    (req = "chat" \/ resp.endpoint = "chat") =>
       /\ vsCalls <= 1 /\ llmCalls <= 1
       /\ failedAt = "retrieval" =>
             /\ vsCalls = 1 /\ llmCalls = 0 /\ req = "none"
             /\ \E f \in Failures :
                   resp = ChatRouterResponse([ok |-> FALSE, exc |-> f])
       /\ failedAt = "model" =>
             /\ vsCalls = 1 /\ llmCalls = 1 /\ req = "none" /\ answer = ""
             /\ \E f \in Failures :
                   resp = ChatRouterResponse([ok |-> FALSE, exc |-> f])
       /\ (answer # "" \/ resp.code = 200) => (vsCalls = 1 /\ llmCalls = 1)

C25_Witness ==
    /\ resp.endpoint = "chat"
    /\ failedAt = "model"
    /\ vsCalls = 1
    /\ llmCalls = 1
    /\ retrieved # <<>>

\* C26: the input text of the cost computation of a RAG chat request is the
\* whole prompt handed to the model (system instruction, retrieved context,
\* formatted history, current query), and the output text is the answer.
C26_CostInputIsWholePrompt ==
    (resp.endpoint = "chat" /\ cost.called) =>
        /\ cost.input_text = llmInput[1].content
        /\ cost.output_text = Words(answer)

\* C27: no client is constructed more than once: over the serving of a
\* request the constructors of the model client and of the vector-store
\* client have each run at most once.
C27_ClientsBuiltOnce ==
    /\ built.llm <= 1
    /\ built.vectordb <= 1

C29_OnlyIngestionWrites ==
    [][req # "ingest" => (store' = store /\ chunkFiles' = chunkFiles)]_vars

C29_Witness ==
    /\ resp.endpoint \in {"chat", "raw", "summary"}
    /\ answer # ""
    /\ Len(store) = 2
    /\ chunkFiles # {}

\* C30: the response of a RAG chat request whose model call returned lists
\* one source per retrieved entry, in retrieval order, with id and source
\* taken from the chunk_id and source metadata (or "unknown"), the entry's
\* text as content and the remaining metadata; at most top-k sources, and
\* none when returning source documents is disabled.
C30_SourcesMatchRetrieved ==
    (resp.endpoint = "chat" /\ answer # "") =>
        /\ "sources" \in DOMAIN resp.body
        /\ Len(resp.body.sources) <= settings.chat_top_k
        /\ ~settings.chat_return_source_docs => resp.body.sources = <<>>
        /\ settings.chat_return_source_docs =>
              /\ Len(resp.body.sources) = Len(retrieved)
              /\ \A i \in DOMAIN retrieved :
                    LET md == retrieved[i].metadata
                        src == resp.body.sources[i]
                    IN  /\ src.id = IF "chunk_id" \in DOMAIN md
                                    THEN md.chunk_id ELSE "unknown"
                        /\ src.source = IF "source" \in DOMAIN md
                                        THEN md.source ELSE "unknown"
                        /\ src.content = retrieved[i].page_content
                        /\ src.metadata =
                              [k \in DOMAIN md \ {"chunk_id", "source"} |-> md[k]]

====
